---- MODULE Spec2Model ----
(***************************************************************************)
(* Rogue: an intercepting HTTP/HTTPS proxy.  The model covers the session  *)
(* logger (internal/logger/logger.go), the correlation hooks and start-up  *)
(* (internal/proxy/proxy.go) and the root certificate files                *)
(* (internal/cert/cert.go).                                                *)
(*                                                                         *)
(* A session document is modelled as the sequence of the chunks written to *)
(* the file: the opening framing "[\n", the separator ",\n", the closing   *)
(* framing "\n]" and one JSON value per Encode call.  A JSON value is a    *)
(* tagged record (string, number, object, null); an object holds a         *)
(* function from its keys to JSON values, so a key left out by omitempty   *)
(* is a key outside the function's domain.                                 *)
(***************************************************************************)
EXTENDS Integers, Sequences, FiniteSets, TLC

VARIABLES
    now,        \* the wall clock, in clock readings (time.Now)
    sl,         \* the SessionLogger of the run, NoLogger before construction
    sessDir,    \* the session directory: file name -> chunks written
    traffic,    \* the header and body every message of the run carries
    hist,       \* the calls made on the logger so far, each with its result
    conns,      \* per connection: the position of its exchange in the hooks
    opts,       \* the Proxy options of the run
    disk,       \* the certificate and key files
    proxy,      \* the result of the most recent NewProxyServer
    exp         \* the exporter's inputs and the reports written

vars == <<now, sl, sessDir, traffic, hist, conns, opts, disk, proxy, exp>>

----------------------------------------------------------------------------
(* Bounds of the model *)

MaxClock == 1
MaxBodyLen == 2
MaxCeiling == 2
MaxCalls == 4
MaxFaults == 1
MaxHookCalls == 2
NumConns == 2
MaxHooks == 3
MaxStarts == 3
MaxEntries == 2

----------------------------------------------------------------------------
(* JSON values and file chunks *)

Str(s) == [k |-> "string", s |-> s]
Num(n) == [k |-> "number", n |-> n]
Obj(f) == [k |-> "object", f |-> f]
Null == [k |-> "null"]

OPEN == [k |-> "open"]       \* "[\n"
SEP == [k |-> "sep"]         \* ",\n"
CLOSE == [k |-> "close"]     \* "\n]"

EmptyMap == [x \in {} |-> x]

IsEntry(c) == c.k \in {"object", "null", "string", "number"}

\* The JSON values of a document, in file order
RECURSIVE EntriesOf(_)
EntriesOf(doc) ==
    IF doc = <<>> THEN <<>>
    ELSE IF IsEntry(Head(doc)) THEN <<Head(doc)>> \o EntriesOf(Tail(doc))
    ELSE EntriesOf(Tail(doc))

RECURSIVE CountOf(_, _)
CountOf(doc, c) ==
    IF doc = <<>> THEN 0
    ELSE (IF Head(doc) = c THEN 1 ELSE 0) + CountOf(Tail(doc), c)

Min(a, b) == IF a < b THEN a ELSE b

----------------------------------------------------------------------------
(* Messages: http.Header, the body reader, http.Request, http.Response *)

IDHeader == "X-Rogue-Request-Id"

NilHeader == [isNil |-> TRUE, m |-> EmptyMap]
MakeHeader(m) == [isNil |-> FALSE, m |-> m]

\* What a call that panics yields in place of a value
Panic(msg) == [panic |-> msg]
Panics(v) == "panic" \in DOMAIN v

\* Mutant: http.Header.Add in place of Set, the value goes after those present
HeaderSet_Add(h, key, v) ==
    IF h.isNil THEN Panic("assignment to entry in nil map")
    ELSE MakeHeader((key :> ((IF key \in DOMAIN h.m THEN h.m[key] ELSE <<>>) \o <<v>>)) @@ h.m)

\* http.Header.Set: the key now holds exactly the one value; a nil Header is a
\* nil map, and the assignment to it panics
HeaderSet(h, key, v) ==
    IF h.isNil THEN Panic("assignment to entry in nil map")
    ELSE MakeHeader((key :> <<v>>) @@ h.m)

\* http.Header.Get: the first value of the key, "" when there is none
HeaderGet(h, key) ==
    IF key \in DOMAIN h.m /\ Len(h.m[key]) > 0 THEN h.m[key][1] ELSE ""

\* A body is a reader over data, read up to pos; a read past failAt returns
\* an error (NoFail: the reader reaches the end of data).
NoFail == -1
NilBody == [isNil |-> TRUE, data |-> "", pos |-> 0, failAt |-> NoFail]
Reader(data, failAt) == [isNil |-> FALSE, data |-> data, pos |-> 0, failAt |-> failAt]

\* io.NopCloser(bytes.NewReader(b))
NewReader(b) == Reader(b, NoFail)

\* io.ReadAll: the bytes from pos to the end, or to the failing read
ReadAll(b) ==
    IF b.failAt = NoFail \/ b.failAt < b.pos
    THEN [bytes |-> SubSeq(b.data, b.pos + 1, Len(b.data)), err |-> FALSE,
          rest |-> [b EXCEPT !.pos = Len(b.data)]]
    ELSE [bytes |-> SubSeq(b.data, b.pos + 1, b.failAt), err |-> TRUE,
          rest |-> [b EXCEPT !.pos = b.failAt]]

Alphabet == "abcdefgh"
BodyData == {SubSeq(Alphabet, 1, n) : n \in 0..MaxBodyLen}
Bodies ==
    {NilBody} \cup {Reader(d, NoFail) : d \in BodyData}
              \cup UNION {{Reader(d, f) : f \in 0..Len(d)} : d \in BodyData}
Headers ==
    { NilHeader,
      MakeHeader(EmptyMap),
      MakeHeader(("Accept" :> <<"x", "y">>) @@ ("Empty" :> <<>>)),
      MakeHeader(("Accept" :> <<"x">>) @@ (IDHeader :> <<"client">>)) }

\* A message with two headers and a body of the greatest length
SampleMessage ==
    [Header |-> MakeHeader(("Accept" :> <<"x">>) @@ ("Host" :> <<"a">>)),
     Body |-> Reader(SubSeq(Alphabet, 1, MaxBodyLen), NoFail)]

Request(t) == [Method |-> "GET", URL |-> "http://a/", Header |-> t.Header, Body |-> t.Body]
Response(t, req) == [StatusCode |-> 200, Header |-> t.Header, Body |-> t.Body, Request |-> req]

----------------------------------------------------------------------------
(* SessionLogger *)

NoLogger ==
    [made |-> FALSE, sessionName |-> "", logHeaders |-> FALSE, logBody |-> FALSE,
     maxBodySize |-> 0, firstEntry |-> FALSE, encErr |-> FALSE, closed |-> TRUE]

TicksPerSecond == 2
\* time.Now().Format("20060102_150405"): the clock reading cut to the second
SessionName(t) == "session_" \o ToString(t \div TicksPerSecond) \o ".json"

\* time.Time as encoding/json writes it
Timestamp(t) == "T" \o ToString(t)

\* Mutant: the headers are kept whatever logHeaders says
CaptureHeaders_Always(l, h) ==
    IF ~h.isNil
    THEN MakeHeader([k \in {x \in DOMAIN h.m : Len(h.m[x]) > 0} |-> h.m[k][1]])
    ELSE NilHeader

\* The headers a record keeps: the first value of every key that has one
CaptureHeaders(l, h) ==
    IF l.logHeaders /\ ~h.isNil
    THEN MakeHeader([k \in {x \in DOMAIN h.m : Len(h.m[x]) > 0} |-> h.m[k][1]])
    ELSE NilHeader

\* Mutant: the message gets back only the bytes that were logged
CaptureBody_Truncated(l, body) ==
    IF l.logBody /\ ~body.isNil
    THEN LET r == ReadAll(body)
             logSize == IF Len(r.bytes) > l.maxBodySize THEN l.maxBodySize ELSE Len(r.bytes)
         IN  IF r.err THEN [log |-> "", body |-> r.rest]
             ELSE IF logSize < 0
             THEN [panic |-> "slice bounds out of range", log |-> "", body |-> r.rest]
             ELSE [log |-> SubSeq(r.bytes, 1, logSize),
                   body |-> NewReader(SubSeq(r.bytes, 1, logSize))]
    ELSE [log |-> "", body |-> body]

\* logger.go 95-104 / 136-145: the body a record keeps, and the body the
\* message holds afterwards. bodyBytes[:logSize] panics when the ceiling is
\* negative: the body is drained by then and has not been put back.
CaptureBody(l, body) ==
    IF l.logBody /\ ~body.isNil
    THEN LET r == ReadAll(body)
             logSize == IF Len(r.bytes) > l.maxBodySize THEN l.maxBodySize ELSE Len(r.bytes)
         IN  IF r.err THEN [log |-> "", body |-> r.rest]
             ELSE IF logSize < 0
             THEN [panic |-> "slice bounds out of range", log |-> "", body |-> r.rest]
             ELSE [log |-> SubSeq(r.bytes, 1, logSize), body |-> NewReader(r.bytes)]
    ELSE [log |-> "", body |-> body]

\* The record of a message, or the panic of the body capture
RequestLog(l, req, requestID, t) ==
    IF Panics(CaptureBody(l, req.Body)) THEN Panic(CaptureBody(l, req.Body).panic)
    ELSE [Timestamp |-> t, Method |-> req.Method, URL |-> req.URL,
          Headers |-> CaptureHeaders(l, req.Header),
          Body |-> CaptureBody(l, req.Body).log, RequestID |-> requestID]

ResponseLog(l, resp, requestID, t) ==
    IF Panics(CaptureBody(l, resp.Body)) THEN Panic(CaptureBody(l, resp.Body).panic)
    ELSE [Timestamp |-> t, StatusCode |-> resp.StatusCode,
          Headers |-> CaptureHeaders(l, resp.Header),
          Body |-> CaptureBody(l, resp.Body).log, RequestID |-> requestID]

\* encoding/json on the struct tags: omitempty drops a nil or empty map and ""
OmitEmptyHeaders(h) ==
    IF h.isNil \/ DOMAIN h.m = {} THEN EmptyMap
    ELSE "headers" :> Obj([k \in DOMAIN h.m |-> Str(h.m[k])])

OmitEmptyBody(b) ==
    IF b = "" THEN EmptyMap ELSE "body" :> Str(b)

MarshalRequestLog(r) ==
    Obj(("timestamp" :> Str(Timestamp(r.Timestamp))) @@ ("method" :> Str(r.Method))
        @@ ("url" :> Str(r.URL)) @@ OmitEmptyHeaders(r.Headers)
        @@ OmitEmptyBody(r.Body) @@ ("request_id" :> Str(r.RequestID)))

MarshalResponseLog(r) ==
    Obj(("timestamp" :> Str(Timestamp(r.Timestamp))) @@ ("status_code" :> Num(r.StatusCode))
        @@ OmitEmptyHeaders(r.Headers)
        @@ OmitEmptyBody(r.Body) @@ ("request_id" :> Str(r.RequestID)))

RequestEntry(r) == Obj(("type" :> Str("request")) @@ ("data" :> MarshalRequestLog(r)))
ResponseEntry(r) == Obj(("type" :> Str("response")) @@ ("data" :> MarshalResponseLog(r)))

\* Mutant: a write on a closed handle lands like any other
WriteString_OnClosed(l, doc, chunk, ok) ==
    IF ok THEN [doc |-> Append(doc, chunk), err |-> FALSE]
    ELSE [doc |-> doc, err |-> TRUE]

\* os.File.WriteString and the Encoder's single Write: the chunk lands whole,
\* or the write fails (ok = FALSE, or the handle is closed) and nothing lands
WriteString(l, doc, chunk, ok) ==
    IF ok /\ ~l.closed THEN [doc |-> Append(doc, chunk), err |-> FALSE]
    ELSE [doc |-> doc, err |-> TRUE]

\* logger.go 107-111 / 148-152: the separator decision on the value `first`
\* read from sl.firstEntry, and the separator write
AppendSeparator(l, first, doc, ok) ==
    IF ~first THEN WriteString(l, doc, SEP, ok) ELSE [doc |-> doc, err |-> FALSE]

\* Mutant: the flag is never cleared
MarkFirstEntry_Keep(l) == l

\* logger.go 112 / 153
MarkFirstEntry(l) == [l EXCEPT !.firstEntry = FALSE]

\* The Write that ends json.Encoder.Encode: the bytes of the buffer go out in
\* one Write, and the encoder keeps the error of a failed one (l.encErr)
WriteBuffer(l, doc, chunk, ok) ==
    LET w == WriteString(l, doc, chunk, ok)
    IN  [sl |-> IF w.err THEN [l EXCEPT !.encErr = TRUE] ELSE l,
         doc |-> w.doc, err |-> w.err]

\* logger.go 114-117 / 155-158, sl.encoder.Encode with no other call inside
\* it: an encoder that holds an error returns it and writes nothing;
\* otherwise the indented entry is written
EncodeEntry(l, doc, entry, ok) ==
    IF l.encErr THEN [sl |-> l, doc |-> doc, err |-> TRUE]
    ELSE WriteBuffer(l, doc, entry, ok)

\* The separator decision, the flag and the entry write of one append, run
\* without interruption: what one call does when no other call overlaps it
AppendEntry(l, doc, entry, okSep, okEnc) ==
    LET s == AppendSeparator(l, l.firstEntry, doc, okSep)
        e == EncodeEntry(MarkFirstEntry(l), s.doc, entry, okEnc)
    IN  IF s.err THEN [sl |-> l, doc |-> doc, err |-> TRUE]
        ELSE [sl |-> e.sl, doc |-> e.doc, err |-> e.err]

Doc == sessDir[sl.sessionName]

\* A file of the directory created or truncated to the chunks given
WriteFile(dir, name, doc) ==
    [n \in DOMAIN dir \cup {name} |-> IF n = name THEN doc ELSE dir[n]]

\* One call on the logger: its identifier, the entry it built, the error it
\* returned, the body the message holds afterwards, and whether the entry
\* reached the file
Call(op, id, entry, err, out, landed) ==
    [op |-> op, id |-> id, entry |-> entry, err |-> err, out |-> out, landed |-> landed,
     panicked |-> FALSE]

\* A call that panicked: it built no entry, wrote nothing and did not return
PanicCall(op, id, out) ==
    [op |-> op, id |-> id, entry |-> Null, err |-> FALSE, out |-> out, landed |-> FALSE,
     panicked |-> TRUE]

\* The entry is the chunk the call added last to the file
Landed(before, after, entry) ==
    Len(after) > Len(before) /\ after[Len(after)] = entry

\* A logger as NewSessionLogger returns it, for the options given
FreshLogger(o, name) ==
    [made |-> TRUE, sessionName |-> name, logHeaders |-> o.LogHeaders,
     logBody |-> o.LogBody, maxBodySize |-> o.MaxBodySize,
     firstEntry |-> TRUE, encErr |-> FALSE, closed |-> FALSE]

LoggerFailures == {"none", "mkdir", "create", "write"}

\* NewSessionLogger(sessionDir, logHeaders, logBody, maxBodySize) at clock
\* reading t on the directory dir; `fail` names the step that returns an error.
\* os.Create truncates a file of the same name.
OpenSession(dir, o, t, fail) ==
    LET name == SessionName(t)
    IN  [dir |-> CASE fail = "none" -> WriteFile(dir, name, <<OPEN>>)
                   [] fail = "write" -> WriteFile(dir, name, <<>>)
                   [] OTHER -> dir,
         sl |-> IF fail = "none" THEN FreshLogger(o, name) ELSE NoLogger,
         err |-> fail # "none"]

LogRequest(requestID, okSep, okEnc) ==
    /\ sl.made
    /\ LET req == Request(traffic)
           entry == RequestEntry(RequestLog(sl, req, requestID, now))
           a == AppendEntry(sl, Doc, entry, okSep, okEnc)
       IN  IF Panics(CaptureBody(sl, req.Body))
           THEN /\ sl' = sl
                /\ sessDir' = sessDir
                /\ hist' = Append(hist, PanicCall("LogRequest", requestID,
                                                  CaptureBody(sl, req.Body).body))
           ELSE /\ sl' = a.sl
                /\ sessDir' = [sessDir EXCEPT ![sl.sessionName] = a.doc]
                /\ hist' = Append(hist, Call("LogRequest", requestID, entry, a.err,
                                             CaptureBody(sl, req.Body).body,
                                             Landed(Doc, a.doc, entry)))
    /\ UNCHANGED <<now, traffic, conns, opts, disk, proxy, exp>>

\* Mutant: the body is put back only once the entry is written
LogResponse_RestoreLast(requestID, okSep, okEnc) ==
    /\ sl.made
    /\ LET resp == Response(traffic, Request(traffic))
           entry == ResponseEntry(ResponseLog(sl, resp, requestID, now))
           a == AppendEntry(sl, Doc, entry, okSep, okEnc)
       IN  IF Panics(CaptureBody(sl, resp.Body))
           THEN /\ sl' = sl
                /\ sessDir' = sessDir
                /\ hist' = Append(hist, PanicCall("LogResponse", requestID,
                                                  CaptureBody(sl, resp.Body).body))
           ELSE /\ sl' = a.sl
                /\ sessDir' = [sessDir EXCEPT ![sl.sessionName] = a.doc]
                /\ hist' = Append(hist, Call("LogResponse", requestID, entry, a.err,
                                             IF a.err /\ sl.logBody /\ ~resp.Body.isNil
                                             THEN ReadAll(resp.Body).rest
                                             ELSE CaptureBody(sl, resp.Body).body,
                                             Landed(Doc, a.doc, entry)))
    /\ UNCHANGED <<now, traffic, conns, opts, disk, proxy, exp>>

LogResponse(requestID, okSep, okEnc) ==
    /\ sl.made
    /\ LET resp == Response(traffic, Request(traffic))
           entry == ResponseEntry(ResponseLog(sl, resp, requestID, now))
           a == AppendEntry(sl, Doc, entry, okSep, okEnc)
       IN  IF Panics(CaptureBody(sl, resp.Body))
           THEN /\ sl' = sl
                /\ sessDir' = sessDir
                /\ hist' = Append(hist, PanicCall("LogResponse", requestID,
                                                  CaptureBody(sl, resp.Body).body))
           ELSE /\ sl' = a.sl
                /\ sessDir' = [sessDir EXCEPT ![sl.sessionName] = a.doc]
                /\ hist' = Append(hist, Call("LogResponse", requestID, entry, a.err,
                                             CaptureBody(sl, resp.Body).body,
                                             Landed(Doc, a.doc, entry)))
    /\ UNCHANGED <<now, traffic, conns, opts, disk, proxy, exp>>

\* Close: the closing framing, then the handle is closed whatever the write did;
\* closing a closed handle returns an error
Close(ok) ==
    /\ sl.made
    /\ LET w == WriteString(sl, Doc, CLOSE, ok)
       IN  /\ sessDir' = [sessDir EXCEPT ![sl.sessionName] = w.doc]
           /\ sl' = [sl EXCEPT !.closed = TRUE]
           /\ hist' = Append(hist, Call("Close", "", Null, w.err \/ sl.closed, NilBody, FALSE))
    /\ UNCHANGED <<now, traffic, conns, opts, disk, proxy, exp>>

Tick ==
    /\ now < MaxClock
    /\ now' = now + 1
    /\ UNCHANGED <<sl, sessDir, traffic, hist, conns, opts, disk, proxy, exp>>

----------------------------------------------------------------------------
(* The exporter: LoadSession, the two encodings, the report *)

WS == [k |-> "ws"]           \* white space between values

\* bytes.TrimSpace(data)
RECURSIVE TrimSpace(_)
TrimSpace(doc) ==
    IF doc # <<>> /\ Head(doc) = WS THEN TrimSpace(Tail(doc))
    ELSE IF doc # <<>> /\ doc[Len(doc)] = WS THEN TrimSpace(SubSeq(doc, 1, Len(doc) - 1))
    ELSE doc

\* What remains of a document with its white space dropped (the JSON scanner
\* skips it between values)
RECURSIVE SkipSpace(_)
SkipSpace(doc) ==
    IF doc = <<>> THEN <<>>
    ELSE IF Head(doc) = WS THEN SkipSpace(Tail(doc))
    ELSE <<Head(doc)>> \o SkipSpace(Tail(doc))

\* A JSON value that decodes into a map[string]any: an object, or null (a nil map)
IsMapValue(c) == c.k \in {"object", "null"}

\* value (SEP value)* : the elements of an array, already past the "["
RECURSIVE Elements(_)
Elements(d) ==
    IF d = <<>> \/ ~IsMapValue(Head(d)) THEN [err |-> TRUE, entries |-> <<>>]
    ELSE IF Len(d) = 1 THEN [err |-> FALSE, entries |-> d]
    ELSE IF d[2] # SEP THEN [err |-> TRUE, entries |-> <<>>]
    ELSE LET r == Elements(SubSeq(d, 3, Len(d)))
         IN  [err |-> r.err, entries |-> IF r.err THEN <<>> ELSE <<Head(d)>> \o r.entries]

\* json.Unmarshal(data, &entries) with entries a []map[string]any: one array,
\* closed, with nothing after it
Unmarshal(doc) ==
    LET d == SkipSpace(doc)
    IN  IF Len(d) < 2 \/ Head(d) # OPEN \/ d[Len(d)] # CLOSE
        THEN [err |-> TRUE, entries |-> <<>>]
        ELSE IF Len(d) = 2 THEN [err |-> FALSE, entries |-> <<>>]
        ELSE Elements(SubSeq(d, 2, Len(d) - 1))

\* The json.Decoder loop: values back to back until io.EOF
DecodeStream(doc) ==
    LET d == SkipSpace(doc)
    IN  IF \A i \in 1..Len(d) : IsMapValue(d[i])
        THEN [err |-> FALSE, entries |-> d]
        ELSE [err |-> TRUE, entries |-> <<>>]

\* Mutant: the first byte is tested with the white space still in front of it
ParseSession_NoTrim(doc) ==
    IF Len(doc) > 0 /\ doc[1] = OPEN
    THEN Unmarshal(doc)
    ELSE DecodeStream(doc)

\* logger.go 204-221: the encoding is chosen by the first non-blank byte
ParseSession(doc) ==
    LET trimmedData == TrimSpace(doc)
    IN  IF Len(trimmedData) > 0 /\ trimmedData[1] = OPEN
        THEN Unmarshal(doc)
        ELSE DecodeStream(doc)

\* v.(string) with the result dropped on failure: "" for anything else
StringOr(obj, key) ==
    IF key \in DOMAIN obj.f /\ obj.f[key].k = "string" THEN obj.f[key].s ELSE ""

\* v.(float64) with the result dropped on failure: 0 for anything else
NumberOr(obj, key) ==
    IF key \in DOMAIN obj.f /\ obj.f[key].k = "number" THEN obj.f[key].n ELSE 0

\* The entry passes both type assertions of logger.go 227-235
HasTypeAndData(e) ==
    /\ e.k = "object"
    /\ "type" \in DOMAIN e.f /\ e.f["type"].k = "string"
    /\ "data" \in DOMAIN e.f /\ e.f["data"].k = "object"

\* The keys of the headers table of an entry, {} when no table is written
HeaderKeys(e) ==
    IF HasTypeAndData(e) /\ e.f["type"].s \in {"request", "response"}
       /\ "headers" \in DOMAIN e.f["data"].f /\ e.f["data"].f["headers"].k = "object"
    THEN DOMAIN e.f["data"].f["headers"].f
    ELSE {}

\* The orders in which a range over a map with these keys may visit them
Orders(keys) ==
    {o \in [1..Cardinality(keys) -> keys] : \A i, j \in DOMAIN o : i # j => o[i] # o[j]}

\* One pass of the loop body of logger.go 226-287 over an entry that passed the
\* type assertions; `order` is the order the range over its headers takes
Section(e, order) ==
    LET data == e.f["data"]
        typeStr == e.f["type"].s
        known == typeStr \in {"request", "response"}
    IN  [kind |-> IF known THEN typeStr ELSE "",
         id |-> IF known THEN StringOr(data, "request_id") ELSE "",
         time |-> IF known THEN StringOr(data, "timestamp") ELSE "",
         method |-> IF typeStr = "request" THEN StringOr(data, "method") ELSE "",
         url |-> IF typeStr = "request" THEN StringOr(data, "url") ELSE "",
         status |-> IF typeStr = "response" THEN NumberOr(data, "status_code") ELSE 0,
         rows |-> IF known
                  THEN [i \in DOMAIN order |-> <<order[i], data.f["headers"].f[order[i]]>>]
                  ELSE <<>>,
         body |-> IF known THEN StringOr(data, "body") ELSE "",
         rule |-> TRUE]

\* Mutant: the sections come out last entry first
RECURSIVE Sections_Reversed(_, _)
Sections_Reversed(entries, iter) ==
    IF entries = <<>> THEN <<>>
    ELSE Sections_Reversed(Tail(entries), Tail(iter))
         \o (IF HasTypeAndData(Head(entries))
             THEN <<Section(Head(entries), Head(iter))>> ELSE <<>>)

\* The sections of the report, in the order of the entries; iter[i] is the
\* order the range over the headers of entry i takes
RECURSIVE Sections(_, _)
Sections(entries, iter) ==
    IF entries = <<>> THEN <<>>
    ELSE (IF HasTypeAndData(Head(entries))
          THEN <<Section(Head(entries), Head(iter))>> ELSE <<>>)
         \o Sections(Tail(entries), Tail(iter))

\* The choices of iteration order for a list of entries
Iterations(entries) ==
    {it \in [DOMAIN entries -> UNION {Orders(HeaderKeys(entries[i])) : i \in DOMAIN entries}] :
        \A i \in DOMAIN entries : it[i] \in Orders(HeaderKeys(entries[i]))}

NoExport == [files |-> EmptyMap, name |-> "", out |-> "", err |-> FALSE]

\* Mutant: the output file is created before the session is loaded and parsed
ExportSessionToMarkdown_CreateFirst(sessionName, outputPath) ==
    LET created == WriteFile(exp.files, outputPath, [title |-> sessionName, sections |-> <<>>])
    IN  IF sessionName \notin DOMAIN sessDir
        THEN /\ exp' = [files |-> created, name |-> sessionName, out |-> outputPath,
                        err |-> TRUE]
             /\ UNCHANGED <<now, sl, sessDir, traffic, hist, conns, opts, disk, proxy>>
        ELSE LET p == ParseSession(sessDir[sessionName])
             IN  /\ IF p.err
                    THEN exp' = [files |-> created, name |-> sessionName,
                                 out |-> outputPath, err |-> TRUE]
                    ELSE \E iter \in Iterations(p.entries) :
                            exp' = [files |-> WriteFile(exp.files, outputPath,
                                                [title |-> sessionName,
                                                 sections |-> Sections(p.entries, iter)]),
                                    name |-> sessionName, out |-> outputPath, err |-> FALSE]
                 /\ UNCHANGED <<now, sl, sessDir, traffic, hist, conns, opts, disk, proxy>>

\* ExportSessionToMarkdown(sessionDir, sessionName, outputPath)
ExportSessionToMarkdown(sessionName, outputPath) ==
    IF sessionName \notin DOMAIN sessDir
    THEN /\ exp' = [exp EXCEPT !.name = sessionName, !.out = outputPath, !.err = TRUE]
         /\ UNCHANGED <<now, sl, sessDir, traffic, hist, conns, opts, disk, proxy>>
    ELSE LET p == ParseSession(sessDir[sessionName])
         IN  /\ IF p.err
                THEN exp' = [exp EXCEPT !.name = sessionName, !.out = outputPath,
                                        !.err = TRUE]
                ELSE \E iter \in Iterations(p.entries) :
                        exp' = [files |-> WriteFile(exp.files, outputPath,
                                            [title |-> sessionName,
                                             sections |-> Sections(p.entries, iter)]),
                                name |-> sessionName, out |-> outputPath, err |-> FALSE]
             /\ UNCHANGED <<now, sl, sessDir, traffic, hist, conns, opts, disk, proxy>>

----------------------------------------------------------------------------
(* The root certificate files and start-up *)

\* A file of the pair: absent, empty (created, nothing complete written), or a
\* PEM block of the identity numbered id
Absent == [state |-> "absent", id |-> 0]
Empty == [state |-> "empty", id |-> 0]
Pem(id) == [state |-> "pem", id |-> id]

SecondsPerDay == 86400

\* Mutant: organization and common name change places in the template
Certificate_SubjectSwapped(id, org, commonName, validDays, t) ==
    [state |-> "pem", id |-> id, org |-> commonName, cn |-> org,
     notBefore |-> t \div TicksPerSecond,
     notAfter |-> (t + validDays * SecondsPerDay * TicksPerSecond) \div TicksPerSecond,
     isCA |-> TRUE]

\* cert.go 22-44 and 59: the certificate of identity id as the file holds it;
\* X.509 keeps both ends of the validity window to the second
Certificate(id, org, commonName, validDays, t) ==
    [state |-> "pem", id |-> id, org |-> org, cn |-> commonName,
     notBefore |-> t \div TicksPerSecond,
     notAfter |-> (t + validDays * SecondsPerDay * TicksPerSecond) \div TicksPerSecond,
     isCA |-> TRUE]

\* The two files, and how many identities were generated so far
NoDisk == [cert |-> Absent, key |-> Absent, gen |-> 0]
NoProxy == [starts |-> 0, state |-> "none", generated |-> FALSE]

\* Mutant: the key test inverted
Exists_KeyInverted(d) ==
    d.cert.state # "absent" /\ ~(d.key.state # "absent")

\* cert.Exists: os.Stat succeeds on both paths
Exists(d) ==
    d.cert.state # "absent" /\ d.key.state # "absent"

GenerateFailures ==
    {"none", "keygen", "serial", "sign", "mkdir", "createCert", "writeCert",
     "createKey", "marshalKey", "writeKey"}

\* cert.GenerateSelfSigned: a new identity, the certificate file, then the key
\* file; `fail` names the step that returns an error
GenerateSelfSigned(d, org, commonName, validDays, t, fail) ==
    LET id == d.gen + 1
        crt == Certificate(id, org, commonName, validDays, t)
    IN  CASE fail \in {"keygen", "serial", "sign", "mkdir", "createCert"} ->
                [disk |-> d, err |-> TRUE]
          [] fail = "writeCert" ->
                [disk |-> [d EXCEPT !.cert = Empty], err |-> TRUE]
          [] fail = "createKey" ->
                [disk |-> [d EXCEPT !.cert = crt, !.gen = id], err |-> TRUE]
          [] fail \in {"marshalKey", "writeKey"} ->
                [disk |-> [d EXCEPT !.cert = crt, !.key = Empty, !.gen = id], err |-> TRUE]
          [] OTHER ->
                [disk |-> [d EXCEPT !.cert = crt, !.key = Pem(id), !.gen = id],
                 err |-> FALSE]

\* cert.Load: both files read and parsed
Load(d) ==
    [err |-> d.cert.state # "pem" \/ d.key.state # "pem", cert |-> d.cert, key |-> d.key]

\* proxy.go 103: the identity NewProxyServer asks for
RootOrg == "Rogue Proxy"
RootCommonName == "Rogue CA"
RootValidDays == 365

\* Mutant: an error of NewSessionLogger is dropped and the proxy is returned
NewProxyServer_LoggerErrorDropped(genFail, mitmFail, logFail) ==
    /\ proxy.starts < MaxStarts
    /\ LET generate == ~Exists(disk)
           g == IF generate
                THEN GenerateSelfSigned(disk, RootOrg, RootCommonName, RootValidDays,
                                        now, genFail)
                ELSE [disk |-> disk, err |-> FALSE]
           l == Load(g.disk)
           certOK == ~g.err /\ ~l.err /\ ~mitmFail
           s == IF certOK THEN OpenSession(sessDir, opts, now, logFail)
                ELSE [dir |-> sessDir, sl |-> NoLogger, err |-> TRUE]
       IN  /\ disk' = g.disk
           /\ sessDir' = s.dir
           /\ sl' = s.sl
           /\ proxy' = [starts |-> proxy.starts + 1,
                        state |-> CASE g.err -> "panic: failed to generate certs"
                                    [] ~g.err /\ l.err -> "panic: failed to load certs"
                                    [] ~g.err /\ ~l.err /\ mitmFail -> "panic: failed to create MITM config"
                                    [] certOK /\ s.err -> "serving"
                                    [] OTHER -> "serving",
                        generated |-> generate]
    /\ UNCHANGED <<now, traffic, hist, conns, opts, exp>>

\* proxy.NewProxyServer: the certificate pair, the MITM configuration, the
\* session logger; any error panics
NewProxyServer(genFail, mitmFail, logFail) ==
    /\ proxy.starts < MaxStarts
    /\ LET generate == ~Exists(disk)
           g == IF generate
                THEN GenerateSelfSigned(disk, RootOrg, RootCommonName, RootValidDays,
                                        now, genFail)
                ELSE [disk |-> disk, err |-> FALSE]
           l == Load(g.disk)
           certOK == ~g.err /\ ~l.err /\ ~mitmFail
           s == IF certOK THEN OpenSession(sessDir, opts, now, logFail)
                ELSE [dir |-> sessDir, sl |-> NoLogger, err |-> TRUE]
       IN  /\ disk' = g.disk
           /\ sessDir' = s.dir
           /\ sl' = s.sl
           /\ proxy' = [starts |-> proxy.starts + 1,
                        state |-> CASE g.err -> "panic: failed to generate certs"
                                    [] ~g.err /\ l.err -> "panic: failed to load certs"
                                    [] ~g.err /\ ~l.err /\ mitmFail -> "panic: failed to create MITM config"
                                    [] certOK /\ s.err -> "panic: failed to create session logger"
                                    [] OTHER -> "serving",
                        generated |-> generate]
    /\ UNCHANGED <<now, traffic, hist, conns, opts, exp>>

\* The operator removes one of the two files
RemoveFile(which) ==
    /\ disk[which].state # "absent"
    /\ disk' = [disk EXCEPT ![which] = Absent]
    /\ UNCHANGED <<now, sl, sessDir, traffic, hist, conns, opts, proxy, exp>>

----------------------------------------------------------------------------
(* Options and initial states *)

\* proxy.go 55-62, WithLogging: the ceiling is an int taken as given, a
\* negative one included
NegativeCeiling == -1

Options ==
    [LogRequests : BOOLEAN, LogResponses : BOOLEAN, LogHeaders : BOOLEAN,
     LogBody : BOOLEAN, MaxBodySize : NegativeCeiling..MaxCeiling]

\* proxy.go 85-96, with the body ceiling scaled to the bodies of the model
DefaultOptions ==
    [LogRequests |-> TRUE, LogResponses |-> TRUE, LogHeaders |-> TRUE,
     LogBody |-> TRUE, MaxBodySize |-> MaxCeiling]

Traffic == [Header : Headers, Body : Bodies]


IdleRest ==
    /\ conns = <<>>
    /\ disk = NoDisk
    /\ proxy = NoProxy
    /\ exp = NoExport

----------------------------------------------------------------------------
(* SeqSpec: one caller drives one logger, call after call *)

SeqInit ==
    /\ now = 0
    /\ opts = DefaultOptions
    /\ traffic = SampleMessage
    /\ sl = FreshLogger(opts, SessionName(now))
    /\ sessDir = (SessionName(now) :> <<OPEN>>)
    /\ hist = <<>>
    /\ IdleRest

\* The request ID the one caller of LogRequest passes is a clock reading
\* (proxy.go 70); LogResponse gets what the header held, possibly nothing
\* Whether the file takes the next write: failures of the file itself are
\* explored while fewer than MaxFaults calls have returned an error
Outcomes == IF Len(SelectSeq(hist, LAMBDA h : h.err)) < MaxFaults THEN BOOLEAN ELSE {TRUE}

SeqLogRequest ==
    /\ Len(hist) < MaxCalls
    /\ \E okSep, okEnc \in Outcomes : LogRequest(ToString(now), okSep, okEnc)

SeqLogResponse ==
    /\ Len(hist) < MaxCalls
    /\ \E id \in {"", ToString(now)}, okSep, okEnc \in Outcomes : LogResponse(id, okSep, okEnc)

SeqClose ==
    /\ Len(hist) < MaxCalls
    /\ \E ok \in Outcomes : Close(ok)

SeqNext ==
    \/ Tick
    \/ SeqLogRequest
    \/ SeqLogResponse
    \/ SeqClose

SeqSpec == SeqInit /\ [][SeqNext]_vars

----------------------------------------------------------------------------
(* HookSpec: LogRequest and LogResponse on every kind of message, under every
   setting of the logger *)

HookInit ==
    /\ now = 0
    /\ opts \in {o \in Options : o.LogRequests /\ o.LogResponses}
    /\ traffic \in Traffic
    /\ sl = FreshLogger(opts, SessionName(now))
    /\ sessDir = (SessionName(now) :> <<OPEN>>)
    /\ hist = <<>>
    /\ IdleRest

HookLogRequest ==
    /\ Len(hist) < MaxHookCalls
    /\ \E okSep, okEnc \in BOOLEAN : LogRequest(ToString(now), okSep, okEnc)

HookLogResponse ==
    /\ Len(hist) < MaxHookCalls
    /\ \E okSep, okEnc \in BOOLEAN : LogResponse(ToString(now), okSep, okEnc)

HookNext ==
    \/ HookLogRequest
    \/ HookLogResponse

HookSpec == HookInit /\ [][HookNext]_vars

----------------------------------------------------------------------------
(* Claims about the logger *)

IsLogCall(h) == h.op \in {"LogRequest", "LogResponse"}

LogCalls == SelectSeq(hist, IsLogCall)

\* The body text an entry holds, "" when it has no body key
RecordedBody(entry) ==
    IF "body" \in DOMAIN entry.f["data"].f THEN entry.f["data"].f["body"].s ELSE ""

\* C7: with body logging on, for a body of length L and every configured
\* ceiling maxBodySize the call builds a record that holds exactly the first
\* min(L, maxBodySize) bytes of the body, and the message afterwards holds the
\* whole body, unread.
C7_TruncatedRecordFullBody ==
    \A i \in DOMAIN hist :
        (IsLogCall(hist[i]) /\ sl.logBody /\ ~traffic.Body.isNil
                            /\ traffic.Body.failAt = NoFail) =>
            LET data == traffic.Body.data
                kept == RecordedBody(hist[i].entry)
            IN  /\ ~hist[i].panicked
                /\ Len(kept) = Min(Len(data), sl.maxBodySize)
                /\ kept = SubSeq(data, 1, Len(kept))
                /\ ~hist[i].out.isNil
                /\ hist[i].out.pos = 0
                /\ ReadAll(hist[i].out) = [bytes |-> data, err |-> FALSE,
                                           rest |-> [hist[i].out EXCEPT !.pos = Len(data)]]

C7_Witness ==
    \E i \in DOMAIN hist :
        /\ IsLogCall(hist[i]) /\ sl.logBody
        /\ traffic.Body.failAt = NoFail
        /\ Len(traffic.Body.data) > sl.maxBodySize /\ sl.maxBodySize >= 1
        /\ Len(RecordedBody(hist[i].entry)) = sl.maxBodySize
        /\ hist[i].landed

\* C8: when the append of a LogRequest or LogResponse call fails, the call
\* returns the error, and the message it hands back is the one it hands back
\* when the append succeeds (of the calls that reach their append).
C8_FailureLeavesTraffic ==
    \A i \in DOMAIN hist :
        (IsLogCall(hist[i]) /\ ~hist[i].panicked) =>
            /\ ~hist[i].landed => hist[i].err
            /\ \A j \in DOMAIN hist :
                  (hist[j].op = hist[i].op /\ ~hist[j].panicked) =>
                      hist[j].out = hist[i].out

C8_Witness ==
    \E i, j \in DOMAIN hist :
        /\ hist[i].op = "LogResponse" /\ hist[j].op = "LogResponse"
        /\ hist[i].err /\ ~hist[i].landed
        /\ ~hist[j].err /\ hist[j].landed
        /\ sl.logBody /\ Len(traffic.Body.data) > 0

\* C15: with header logging disabled no entry a call records has a headers key; with
\* body logging disabled no recorded entry has a body key, and the message
\* holds afterwards the very body it held before, unread.
C15_DisabledFieldsAbsent ==
    \A i \in DOMAIN hist :
        (IsLogCall(hist[i]) /\ ~hist[i].panicked) =>
            LET data == hist[i].entry.f["data"].f
            IN  /\ ~sl.logHeaders => "headers" \notin DOMAIN data
                /\ ~sl.logBody => /\ "body" \notin DOMAIN data
                                  /\ hist[i].out = traffic.Body

C15_Witness ==
    \E i \in DOMAIN hist :
        /\ hist[i].op = "LogRequest" /\ hist[i].landed
        /\ ~sl.logHeaders /\ ~sl.logBody
        /\ \E k \in DOMAIN traffic.Header.m : Len(traffic.Header.m[k]) > 0
        /\ traffic.Body.failAt = NoFail /\ Len(traffic.Body.data) > 0
        /\ DOMAIN hist[i].entry.f["data"].f = {"timestamp", "method", "url", "request_id"}

\* es[1], SEP, es[2], SEP, ..., es[n]
RECURSIVE Joined(_)
Joined(es) ==
    IF es = <<>> THEN <<>>
    ELSE IF Len(es) = 1 THEN es
    ELSE <<Head(es), SEP>> \o Joined(Tail(es))

EntriesHanded == [i \in DOMAIN LogCalls |-> LogCalls[i].entry]

NoFailureSinceOpen ==
    /\ sl.made
    /\ \A i \in DOMAIN hist : ~hist[i].err

Closed == \E i \in DOMAIN hist : hist[i].op = "Close"

\* C9: after k >= 0 successful appends, one after the other, the file is the
\* opening framing and the k entries in call order, a separator before every
\* entry but the first, and no closing framing; after Close it is that and the
\* closing framing, a valid array of the k entries.
C9_SequentialFraming ==
    NoFailureSinceOpen =>
        IF Closed
        THEN /\ Doc = <<OPEN>> \o Joined(EntriesHanded) \o <<CLOSE>>
             /\ Unmarshal(Doc) = [err |-> FALSE, entries |-> EntriesHanded]
        ELSE Doc = <<OPEN>> \o Joined(EntriesHanded)

C9_Witness ==
    /\ NoFailureSinceOpen
    /\ Closed
    /\ Len(EntriesHanded) = 3
    /\ CountOf(Doc, SEP) = 2

\* The entries of the appends that returned no error, in call order
EntriesAppended ==
    LET done == SelectSeq(hist, LAMBDA h : IsLogCall(h) /\ ~h.err /\ ~h.panicked)
    IN  [i \in DOMAIN done |-> done[i].entry]

\* C18: after appends of which some failed (the separator write or the entry
\* write returned an error) and a Close that succeeded, the file is a valid
\* array of exactly the entries appended without error, with no leading
\* separator and no two separators in a row.
C18_FailedAppendHarmless ==
    (/\ sl.made /\ hist # <<>>
     /\ hist[Len(hist)].op = "Close" /\ ~hist[Len(hist)].err
     /\ \A i \in 1..(Len(hist) - 1) : IsLogCall(hist[i])) =>
        /\ Unmarshal(Doc) = [err |-> FALSE, entries |-> EntriesAppended]
        /\ Doc[2] # SEP
        /\ \A i \in 1..(Len(Doc) - 1) : ~(Doc[i] = SEP /\ Doc[i + 1] = SEP)

\* C21: once Close has returned, every later LogRequest or LogResponse on the
\* same logger returns an error and leaves the file as it is, and a second
\* Close returns an error and writes no second closing framing.
C21_ClosedDocumentFrozen ==
    [][ (sl.closed /\ hist' # hist) =>
            /\ hist'[Len(hist')].err
            /\ ~hist'[Len(hist')].landed
            /\ sessDir' = sessDir
      ]_vars

C21_Witness ==
    /\ Len(hist) = 4
    /\ hist[1].op = "LogRequest" /\ ~hist[1].err
    /\ hist[2].op = "Close" /\ ~hist[2].err
    /\ hist[3].op = "LogResponse" /\ hist[3].err
    /\ hist[4].op = "Close" /\ hist[4].err
    /\ Doc = <<OPEN, hist[1].entry, CLOSE>>

\* C22: with body logging on, the message holds after LogRequest or
\* LogResponse has returned a fresh reader at its start with every byte of the original
\* body, also when the read of the original body failed part-way.
C22_CompleteBodyHandedBack ==
    \A i \in DOMAIN hist :
        (IsLogCall(hist[i]) /\ ~hist[i].panicked /\ sl.logBody /\ ~traffic.Body.isNil) =>
            hist[i].out = NewReader(traffic.Body.data)

C9_WitnessEmpty ==
    NoFailureSinceOpen /\ Closed /\ Len(EntriesHanded) = 0 /\ Doc = <<OPEN, CLOSE>>

----------------------------------------------------------------------------
(* Spec: one run of the proxy; the engine serves NumConns connections, one
   exchange each, and runs the hooks of different connections concurrently,
   MaxHooks hook calls at most in a run. A hook is a sequence of steps; steps
   of different connections interleave. Connections are numbered in the
   order in which the engine takes them up. *)

Conns == 1..NumConns

IdleConn ==
    [pc |-> "idle", phase |-> "", header |-> NilHeader, body |-> NilBody,
     reqID |-> "", respID |-> "", entry |-> Null, stamped |-> FALSE,
     clobber |-> {}, reqRes |-> "", respRes |-> ""]

\* The hooks the engine has called so far
HooksStarted ==
    Cardinality({c \in Conns : conns[c].stamped})
      + Cardinality({c \in Conns : conns[c].phase = "resp"})

\* Connection c is the next one the engine takes up
Arrives(c) == conns[c].pc = "idle" /\ \A d \in 1..(c - 1) : conns[d].pc # "idle"

\* The position of a connection whose request has gone out: the reply comes
\* back, and the response modifier runs if there is one
Forwarded == IF opts.LogResponses THEN "reply" ELSE "done"

\* The hook of connection c returns: the engine goes on whatever the result
Return(c, err) ==
    /\ conns' = IF conns[c].phase = "req"
                THEN [conns EXCEPT ![c].pc = Forwarded,
                                   ![c].reqRes = IF err THEN "err" ELSE "ok"]
                ELSE [conns EXCEPT ![c].pc = "done",
                                   ![c].respRes = IF err THEN "err" ELSE "ok"]
    /\ hist' = hist

\* Whether the file takes the next write: failures of the file itself are
\* explored while fewer than MaxFaults hooks have returned an error
HookOutcomes ==
    IF Cardinality({c \in Conns : conns[c].reqRes = "err"})
         + Cardinality({c \in Conns : conns[c].respRes = "err"}) < MaxFaults
    THEN BOOLEAN ELSE {TRUE}

\* proxy.go 69-71: the identifier, a reading of the clock, and the header.
\* Header.Set on a nil header panics, and the hook never returns.
ModifyRequest(c) ==
    /\ Arrives(c)
    /\ opts.LogRequests
    /\ HooksStarted < MaxHooks
    /\ LET reqID == ToString(now)
           header == HeaderSet(traffic.Header, IDHeader, reqID)
       IN  IF Panics(header)
           THEN conns' = [conns EXCEPT ![c].pc = "panic"]
           ELSE conns' = [conns EXCEPT ![c] =
                [pc |-> "log", phase |-> "req", header |-> header,
                 body |-> traffic.Body, reqID |-> reqID, respID |-> "",
                 entry |-> Null, stamped |-> TRUE, clobber |-> {},
                 reqRes |-> "", respRes |-> ""]]
    /\ UNCHANGED <<now, sl, sessDir, traffic, hist, opts, disk, proxy, exp>>

\* proxy.go 72 and logger.go 78-105: the record, with a reading of the clock
\* of its own, the headers and the body. The body capture panics under a
\* negative ceiling, and the hook never returns.
RecordRequest(c) ==
    /\ conns[c].pc = "log"
    /\ LET req == [Request(traffic) EXCEPT !.Header = conns[c].header]
       IN  IF Panics(CaptureBody(sl, req.Body))
           THEN conns' = [conns EXCEPT ![c].pc = "panic"]
           ELSE conns' = [conns EXCEPT
                    ![c].pc = "sep",
                    ![c].body = CaptureBody(sl, req.Body).body,
                    ![c].entry = RequestEntry(RequestLog(sl, req, conns[c].reqID, now))]
    /\ UNCHANGED <<now, sl, sessDir, traffic, hist, opts, disk, proxy, exp>>

\* With no request modifier installed the request goes out as the client
\* sent it
RoundTrip(c) ==
    /\ Arrives(c)
    /\ ~opts.LogRequests
    /\ conns' = [conns EXCEPT ![c].pc = Forwarded,
                              ![c].header = traffic.Header,
                              ![c].body = traffic.Body]
    /\ UNCHANGED <<now, sl, sessDir, traffic, hist, opts, disk, proxy, exp>>

\* proxy.go 79-82 and logger.go 120-146
ModifyResponse(c) ==
    /\ conns[c].pc = "reply"
    /\ opts.LogResponses
    /\ HooksStarted < MaxHooks
    /\ LET req == [Request(traffic) EXCEPT !.Header = conns[c].header, !.Body = conns[c].body]
           resp == Response(traffic, req)
           reqID == HeaderGet(resp.Request.Header, IDHeader)
       IN  IF Panics(CaptureBody(sl, resp.Body))
           THEN conns' = [conns EXCEPT ![c].pc = "panic"]
           ELSE conns' = [conns EXCEPT ![c].pc = "sep", ![c].phase = "resp",
                                  ![c].respID = reqID,
                                  ![c].body = CaptureBody(sl, resp.Body).body,
                                  ![c].entry = ResponseEntry(ResponseLog(sl, resp, reqID, now)),
                                  ![c].clobber = {}]
    /\ UNCHANGED <<now, sl, sessDir, traffic, hist, opts, disk, proxy, exp>>

\* logger.go 107-111 / 148-152, the file taking the write or not as outcomes
\* allows
SeparatorStep(c, outcomes) ==
    /\ conns[c].pc = "sep"
    /\ \E ok \in outcomes :
          LET w == AppendSeparator(sl, sl.firstEntry, Doc, ok)
          IN  /\ sessDir' = [sessDir EXCEPT ![sl.sessionName] = w.doc]
              /\ IF w.err THEN Return(c, TRUE)
                 ELSE /\ conns' = [conns EXCEPT ![c].pc = "mark"]
                      /\ hist' = hist
    /\ UNCHANGED <<now, sl, traffic, opts, disk, proxy, exp>>

WriteSeparator(c) == SeparatorStep(c, HookOutcomes)

\* logger.go 112 / 153
ClearFirstEntry(c) ==
    /\ conns[c].pc = "mark"
    /\ sl' = MarkFirstEntry(sl)
    /\ conns' = [conns EXCEPT ![c].pc = "enc"]
    /\ UNCHANGED <<now, sessDir, traffic, hist, opts, disk, proxy, exp>>

\* The connections whose Encode has filled the encoder's buffer and has not
\* written it yet
Buffering(c) == {d \in Conns \ {c} : conns[d].pc = "write"}

\* Bytes of two entries mixed in the encoder's buffer
Garbled == [k |-> "garbled"]

\* logger.go 114 / 155, the first half of json.Encoder.Encode: an encoder that
\* holds an error returns it; otherwise the entry is indented into the one
\* buffer of the encoder (enc.indentBuf), which no lock guards: the bytes of
\* the calls that have not written yet are written over, and each of the
\* overlapping calls may be left with bytes of the others (clobber)
Indent(c) ==
    /\ conns[c].pc = "enc"
    /\ IF sl.encErr THEN Return(c, TRUE)
       ELSE /\ conns' = [d \in Conns |->
                   IF d = c
                   THEN [conns[c] EXCEPT !.pc = "write",
                             !.clobber = {conns[e].entry : e \in Buffering(c)}]
                   ELSE IF d \in Buffering(c)
                        THEN [conns[d] EXCEPT !.clobber = @ \cup {conns[c].entry}]
                        ELSE conns[d]]
            /\ hist' = hist
    /\ UNCHANGED <<now, sl, sessDir, traffic, opts, disk, proxy, exp>>

\* What the buffer of connection c may hold when c writes it: its entry, or,
\* after an overlapping call, the entry of that call or a mix of the two
Buffered(c) ==
    IF conns[c].clobber = {} THEN {conns[c].entry}
    ELSE {conns[c].entry, Garbled} \cup conns[c].clobber

\* logger.go 114-117 / 155-158, the second half of json.Encoder.Encode: the
\* buffer is written, and a failed Write is kept by the encoder
WriteStep(c, outcomes) ==
    /\ conns[c].pc = "write"
    /\ \E ok \in outcomes, chunk \in Buffered(c) :
          LET w == WriteBuffer(sl, Doc, chunk, ok)
          IN  /\ sl' = w.sl
              /\ sessDir' = [sessDir EXCEPT ![sl.sessionName] = w.doc]
              /\ Return(c, w.err)
    /\ UNCHANGED <<now, traffic, opts, disk, proxy, exp>>

Encode(c) == WriteStep(c, HookOutcomes)

\* logger.go 161-163, the first call of Close, whatever the hooks are doing:
\* the closing framing is written
ShutdownWrite ==
    /\ sl.made /\ ~sl.closed /\ ~Closed
    /\ \E ok \in HookOutcomes :
          LET w == WriteString(sl, Doc, CLOSE, ok)
          IN  /\ sessDir' = [sessDir EXCEPT ![sl.sessionName] = w.doc]
              /\ hist' = Append(hist, Call("Close", "", Null, w.err, NilBody, FALSE))
    /\ UNCHANGED <<now, sl, traffic, conns, opts, disk, proxy, exp>>

\* logger.go 164 / 167, the second call of Close: the handle is closed
\* whatever the write did; hooks may have run since the write
ShutdownClose ==
    /\ Closed /\ ~sl.closed
    /\ sl' = [sl EXCEPT !.closed = TRUE]
    /\ UNCHANGED <<now, sessDir, traffic, hist, conns, opts, disk, proxy, exp>>

\* A request the engine parsed always has a header map
Init ==
    /\ now = 0
    /\ opts \in {o \in Options : o.LogHeaders /\ o.LogBody /\ o.MaxBodySize = MaxCeiling}
    /\ traffic \in {t \in Traffic : /\ ~t.Header.isNil /\ "Empty" \notin DOMAIN t.Header.m
                                    /\ t.Body = Reader(SubSeq(Alphabet, 1, MaxBodyLen), NoFail)}
    /\ sl = FreshLogger(opts, SessionName(now))
    /\ sessDir = (SessionName(now) :> <<OPEN>>)
    /\ hist = <<>>
    /\ conns = [c \in Conns |-> IdleConn]
    /\ disk = NoDisk
    /\ proxy = NoProxy
    /\ exp = NoExport

\* The clock matters to a run only where a hook is about to read it
ClockTick ==
    /\ \E c \in Conns :
          \/ conns[c].pc = "log"
          \/ HooksStarted < MaxHooks /\ conns[c].pc = "idle" /\ opts.LogRequests
          \/ HooksStarted < MaxHooks /\ conns[c].pc = "reply"
    /\ Tick

Next ==
    \/ ClockTick
    \/ \E c \in Conns : ModifyRequest(c)
    \/ \E c \in Conns : RecordRequest(c)
    \/ \E c \in Conns : RoundTrip(c)
    \/ \E c \in Conns : ModifyResponse(c)
    \/ \E c \in Conns : WriteSeparator(c)
    \/ \E c \in Conns : ClearFirstEntry(c)
    \/ \E c \in Conns : Indent(c)
    \/ \E c \in Conns : Encode(c)
    \/ ShutdownWrite
    \/ ShutdownClose

Spec == Init /\ [][Next]_vars

----------------------------------------------------------------------------
(* ExchangeSpec: the exchanges of a run with both modifiers installed, a
   client that sends an identifier header of its own, and a file that takes
   every write. The hooks run step by step as in Spec, those of different
   connections interleaved. *)

Healthy == {TRUE}

HealthySeparator(c) == SeparatorStep(c, Healthy)

HealthyEncode(c) == WriteStep(c, Healthy)

ExchangeInit ==
    /\ Init
    /\ opts.LogRequests /\ opts.LogResponses
    /\ HeaderGet(traffic.Header, IDHeader) = "client"

ExchangeNext ==
    \/ ClockTick
    \/ \E c \in Conns : ModifyRequest(c)
    \/ \E c \in Conns : RecordRequest(c)
    \/ \E c \in Conns : ModifyResponse(c)
    \/ \E c \in Conns : HealthySeparator(c)
    \/ \E c \in Conns : ClearFirstEntry(c)
    \/ \E c \in Conns : Indent(c)
    \/ \E c \in Conns : HealthyEncode(c)

ExchangeSpec == ExchangeInit /\ [][ExchangeNext]_vars

----------------------------------------------------------------------------
(* Claims about the hooks and the log of one run *)

IsRecord(c, type) ==
    /\ c.k = "object"
    /\ "type" \in DOMAIN c.f /\ c.f["type"] = Str(type)

RecordID(c) == c.f["data"].f["request_id"].s

\* The appends of the run that returned, and those that returned an error
Returned(res) ==
    Cardinality({c \in Conns : conns[c].reqRes = res})
      + Cardinality({c \in Conns : conns[c].respRes = res})

\* Close has returned, and returned no error
ClosedWell ==
    /\ hist # <<>> /\ hist[Len(hist)].op = "Close" /\ ~hist[Len(hist)].err
    /\ sl.closed

\* C1: N >= 1 appends issued concurrently by different connections, none of
\* them failing, followed by Close (no append is under way or writes after
\* the closing framing), leave a valid array of exactly N entries with
\* exactly N-1 separators.
C1_ConcurrentAppendsValid ==
    (/\ ClosedWell /\ Doc[Len(Doc)] = CLOSE
     /\ \A c \in Conns : conns[c].pc \in {"idle", "reply", "done"}
     /\ Returned("err") = 0 /\ Returned("ok") >= 1) =>
        /\ ~Unmarshal(Doc).err
        /\ Len(Unmarshal(Doc).entries) = Returned("ok")
        /\ CountOf(Doc, SEP) = Returned("ok") - 1

\* C3: at every point of the life of the session document, each response
\* record with a non-empty correlation identifier is preceded by a request
\* record with the same identifier.
C3_ResponseAfterRequest ==
    \A i \in DOMAIN Doc :
        (IsRecord(Doc[i], "response") /\ RecordID(Doc[i]) # "") =>
            \E j \in 1..(i - 1) :
                IsRecord(Doc[j], "request") /\ RecordID(Doc[j]) = RecordID(Doc[i])

\* C5: any two distinct invocations of the request hook during one run attach
\* different identifiers.
C5_UniqueIdentifiers ==
    \A c, d \in Conns :
        (c # d /\ conns[c].stamped /\ conns[d].stamped) => conns[c].reqID # conns[d].reqID

\* C10: the response record of an exchange carries exactly the identifier the
\* request hook generated for the request of that exchange, whatever the
\* hooks of other connections did in between (and whatever identifier the
\* client sent): the response hook reads that identifier back, builds its
\* record with it, and, when no other Encode call overlapped its own and the
\* write succeeded, that record is in the file.
C10_ResponseCarriesRequestID ==
    \A c \in Conns :
        (conns[c].phase = "resp" /\ conns[c].stamped) =>
            /\ conns[c].respID = conns[c].reqID
            /\ IsRecord(conns[c].entry, "response")
            /\ RecordID(conns[c].entry) = conns[c].reqID
            /\ (conns[c].respRes = "ok" /\ conns[c].clobber = {}) =>
                   \E i \in DOMAIN Doc : Doc[i] = conns[c].entry

C10_Witness ==
    \E c, d \in Conns :
        /\ conns[c].pc = "done" /\ conns[c].phase = "resp" /\ conns[c].stamped
        /\ conns[c].respRes = "ok" /\ conns[c].clobber = {}
        /\ conns[d].stamped /\ conns[d].reqID # conns[c].reqID
        /\ HeaderGet(traffic.Header, IDHeader) = "client"
        /\ \E i \in DOMAIN Doc : Doc[i] = conns[c].entry

----------------------------------------------------------------------------
(* CertSpec: the proxy is started again and again on one disk *)

CertInit ==
    /\ now = 0
    /\ sl = NoLogger
    /\ sessDir = EmptyMap
    /\ hist = <<>>
    /\ opts \in {o \in Options : o.LogRequests /\ o.LogResponses /\ o.MaxBodySize = MaxCeiling}
    /\ traffic = [Header |-> MakeHeader(EmptyMap), Body |-> NilBody]
    /\ conns = <<>>
    /\ disk = NoDisk
    /\ proxy = NoProxy
    /\ exp = NoExport

Start ==
    \E genFail \in GenerateFailures, mitmFail \in BOOLEAN, logFail \in LoggerFailures :
        NewProxyServer(genFail, mitmFail, logFail)

Remove == \E which \in {"cert", "key"} : RemoveFile(which)

CertNext ==
    \/ Tick
    \/ Start
    \/ Remove

CertSpec == CertInit /\ [][CertNext]_vars

\* C4: a start with both files present never regenerates the root identity and
\* leaves both files as they were; a start generates only when at least one
\* of the two files is missing.
C4_NoRegeneration ==
    [][ (proxy'.starts # proxy.starts) =>
            /\ (disk.cert.state # "absent" /\ disk.key.state # "absent") =>
                  (disk'.cert = disk.cert /\ disk'.key = disk.key /\ ~proxy'.generated)
            /\ proxy'.generated => (disk.cert.state = "absent" \/ disk.key.state = "absent")
      ]_vars

C4_Witness ==
    /\ proxy.starts >= 2
    /\ ~proxy.generated
    /\ proxy.state = "serving"
    /\ disk.cert.state = "pem" /\ disk.cert.id = 1 /\ disk.key = Pem(1)

\* The step is a call of NewProxyServer
Started == proxy'.starts # proxy.starts

\* C13: a start on which certificate generation, certificate loading, the MITM
\* configuration or the opening of the session log fails returns no proxy: a
\* proxy is serving only with a certificate pair that loads and a session
\* log that is open, and a start that panics leaves no logger for a hook.
C13_StartupErrorsFatal ==
    [][ Started =>
            /\ proxy'.state = "serving" =>
                  /\ disk'.cert.state = "pem" /\ disk'.key.state = "pem"
                  /\ sl'.made /\ ~sl'.closed
                  /\ sl'.sessionName \in DOMAIN sessDir'
                  /\ sessDir'[sl'.sessionName] = <<OPEN>>
            /\ proxy'.state # "serving" => sl' = NoLogger
      ]_vars

C13_Witness ==
    /\ proxy.state = "panic: failed to create session logger"
    /\ proxy.starts >= 2
    /\ disk.cert.state = "pem" /\ disk.key.state = "pem"
    /\ sl = NoLogger

\* The identities asked of GenerateSelfSigned
MaxDays == 2
Orgs == {"Rogue Proxy", "Acme"}
CommonNames == {"Rogue CA", "Acme CA"}

\* The certificate is the one asked for: subject, window, signing authority
IsIdentity(crt, org, commonName, validDays) ==
    /\ crt.state = "pem"
    /\ crt.org = org /\ crt.cn = commonName
    /\ crt.notAfter - crt.notBefore = validDays * SecondsPerDay
    /\ crt.isCA

\* C14: when a file of the pair is missing and generation returns no error,
\* both files are written, Exists reports true and Load succeeds and returns
\* a certificate with the organization and common name given, a validity
\* window of validDays days, marked as a signing authority; so for the
\* identity NewProxyServer asks for and for every identity of the bounded sets.
C14_GeneratedIdentity ==
    [][ (Started /\ (disk.cert.state = "absent" \/ disk.key.state = "absent")) =>
            /\ proxy'.generated
            /\ proxy'.state # "panic: failed to generate certs" =>
                  /\ Exists(disk') /\ ~Load(disk').err
                  /\ disk'.cert.id = disk.gen + 1 /\ disk'.key = Pem(disk.gen + 1)
                  /\ IsIdentity(Load(disk').cert, RootOrg, RootCommonName, RootValidDays)
            /\ \A org \in Orgs, cn \in CommonNames, days \in 0..MaxDays :
                  LET loaded == Load(GenerateSelfSigned(disk, org, cn, days, now, "none").disk)
                  IN  ~loaded.err /\ IsIdentity(loaded.cert, org, cn, days)
      ]_vars

C14_Witness ==
    /\ proxy.starts >= 2
    /\ proxy.generated
    /\ proxy.state = "serving"
    /\ disk.gen = 2 /\ disk.cert.id = 2 /\ disk.key = Pem(2)
    /\ IsIdentity(disk.cert, RootOrg, RootCommonName, RootValidDays)

\* C19: NewSessionLogger never opens a file that an earlier NewSessionLogger
\* call created in the same session directory, also when two runs start
\* within the same clock second.
C19_OwnDocument ==
    [][ (Started /\ sl'.made) => sl'.sessionName \notin DOMAIN sessDir ]_vars

\* C20: in every reachable state, Exists true implies that Load succeeds: a
\* failed GenerateSelfSigned never leaves both files in place.
C20_ExistsImpliesLoad ==
    Exists(disk) => ~Load(disk).err

----------------------------------------------------------------------------
(* ExportSpec: the exporter on documents the logger wrote and on their bare form *)

\* The document after NewSessionLogger and one successful append per entry
RECURSIVE Appended(_, _, _)
Appended(l, doc, es) ==
    IF es = <<>> THEN doc
    ELSE LET a == AppendEntry(l, doc, Head(es), TRUE, TRUE)
         IN  Appended(a.sl, a.doc, Tail(es))

OpenDoc(es) == Appended(FreshLogger(DefaultOptions, "open.json"), <<OPEN>>, es)

\* ... and after Close
ClosedDoc(es) ==
    WriteString(FreshLogger(DefaultOptions, "closed.json"), OpenDoc(es), CLOSE, TRUE).doc

\* The same entries back to back, with no enclosing array and no separators
BareDoc(es) == es

\* A corrupt document: the entries back to back and a stray separator after them
CorruptDoc(es) == es \o <<SEP>>

\* Entries as the logger writes them, and entries of other shapes
ExportEntries ==
    { RequestEntry(RequestLog(FreshLogger(DefaultOptions, ""), Request(SampleMessage), "1", 0)),
      ResponseEntry(ResponseLog(FreshLogger(DefaultOptions, ""),
                                Response(SampleMessage, Request(SampleMessage)), "1", 1)),
      RequestEntry(RequestLog(FreshLogger([DefaultOptions EXCEPT !.LogHeaders = FALSE,
                                                                  !.LogBody = FALSE], ""),
                              Request(SampleMessage), "2", 1)),
      ResponseEntry(ResponseLog(FreshLogger([DefaultOptions EXCEPT !.LogHeaders = FALSE], ""),
                                Response(SampleMessage, Request(SampleMessage)), "", 1)),
      Obj(("type" :> Str("note")) @@ ("data" :> Obj(EmptyMap))),
      Obj(("type" :> Num(1)) @@ ("data" :> Obj(EmptyMap))),
      Obj("type" :> Str("request")),
      Null }

RECURSIVE SeqsUpTo(_, _)
SeqsUpTo(S, n) ==
    IF n = 0 THEN {<<>>}
    ELSE LET shorter == SeqsUpTo(S, n - 1)
         IN  shorter \cup {Append(q, x) : q \in shorter, x \in S}

ExportInit ==
    /\ now = 0
    /\ sl = NoLogger
    /\ hist = <<>>
    /\ opts = DefaultOptions
    /\ traffic = SampleMessage
    /\ \E es \in SeqsUpTo(ExportEntries, MaxEntries), lead \in {<<>>, <<WS>>} :
          sessDir = ("open.json" :> (lead \o OpenDoc(es)))
                    @@ ("closed.json" :> (lead \o ClosedDoc(es)))
                    @@ ("bare.json" :> (lead \o BareDoc(es)))
                    @@ ("corrupt.json" :> (lead \o CorruptDoc(es)))
    /\ conns = <<>>
    /\ disk = NoDisk
    /\ proxy = NoProxy
    /\ exp = NoExport

ExportOpen == ExportSessionToMarkdown("open.json", "open.md")
ExportClosed == ExportSessionToMarkdown("closed.json", "closed.md")
ExportBare == ExportSessionToMarkdown("bare.json", "bare.md")
\* A session that does not exist; a corrupt one, exported to a path of its own
\* or onto the report of an earlier export
ExportMissing == ExportSessionToMarkdown("missing.json", "missing.md")
ExportCorrupt ==
    \E out \in {"corrupt.md", "closed.md"} : ExportSessionToMarkdown("corrupt.json", out)

ExportNext ==
    \/ ExportOpen
    \/ ExportClosed
    \/ ExportBare
    \/ ExportMissing
    \/ ExportCorrupt

ExportSpec == ExportInit /\ [][ExportNext]_vars

----------------------------------------------------------------------------
(* Claims about the exporter *)

Range(f) == {f[i] : i \in DOMAIN f}

\* The sections of a report, in order, the rows of a headers table taken as
\* a set
Content(report) ==
    [i \in DOMAIN report.sections |->
        [report.sections[i] EXCEPT !.rows = Range(report.sections[i].rows)]]

\* C2: a session document whose writer was never closed (NewSessionLogger, then
\* k >= 0 successful appends, no Close) is exportable: the export returns no
\* error and writes a report with one section per recorded entry.
C2_UnclosedExportable ==
    exp.name = "open.json" =>
        /\ ~exp.err
        /\ "open.md" \in DOMAIN exp.files
        /\ Len(exp.files["open.md"].sections)
              = Len(SelectSeq(EntriesOf(sessDir["open.json"]), HasTypeAndData))

\* C6: exporting a closed document (one array) and exporting the same entries
\* back to back with no array and no separators both succeed, and the two
\* reports hold the same sections in the same order, each with the same
\* content, the rows of its headers table included; the encoding is chosen by
\* the first non-blank byte, so leading white space changes nothing.
C6_SameReport ==
    /\ exp.name \in {"closed.json", "bare.json"} => ~exp.err
    /\ ("closed.md" \in DOMAIN exp.files /\ "bare.md" \in DOMAIN exp.files) =>
          exp.files["closed.md"].sections = exp.files["bare.md"].sections

C6_Witness ==
    /\ "closed.md" \in DOMAIN exp.files
    /\ "bare.md" \in DOMAIN exp.files
    /\ Head(sessDir["closed.json"]) = WS
    /\ Len(exp.files["closed.md"].sections) = 2
    /\ exp.files["bare.md"].sections[1].kind = "request"
    /\ exp.files["bare.md"].sections[2].kind = "response"
    /\ Len(exp.files["bare.md"].sections[2].rows) = 2

\* An entry the exporter renders: both type assertions pass and the type is
\* one of the two the switch knows
Recognised(e) == HasTypeAndData(e) /\ e.f["type"].s \in {"request", "response"}

\* The report of a document as the exporter would write it from the recognised
\* entries alone
ReportOfRecognised(sessionName) ==
    LET kept == SelectSeq(ParseSession(sessDir[sessionName]).entries, Recognised)
    IN  [title |-> sessionName,
         sections |-> Sections(kept, CHOOSE it \in Iterations(kept) : TRUE)]

\* C11: entries whose type is neither request nor response are skipped: the
\* export succeeds and the report is the report of the same document with
\* those entries removed (no heading, no content, no horizontal rule for them).
C11_UnrecognisedSkipped ==
    /\ exp.name \in {"closed.json", "bare.json"} => ~exp.err
    /\ "closed.md" \in DOMAIN exp.files =>
          Content(exp.files["closed.md"]) = Content(ReportOfRecognised("closed.json"))
    /\ "bare.md" \in DOMAIN exp.files =>
          Content(exp.files["bare.md"]) = Content(ReportOfRecognised("bare.json"))

\* The sections of a report that have a heading
Headed(report) == SelectSeq(report.sections, LAMBDA x : x.kind # "")

\* Section i is the rendering of entry e: its kind, identifier, time, request
\* line or status, header rows and body, closed by a horizontal rule
Renders(section, e) ==
    LET data == e.f["data"]
        rows == IF "headers" \in DOMAIN data.f /\ data.f["headers"].k = "object"
                THEN {<<k, data.f["headers"].f[k]>> : k \in DOMAIN data.f["headers"].f}
                ELSE {}
    IN  /\ section.kind = e.f["type"].s
        /\ section.id = StringOr(data, "request_id")
        /\ section.time = StringOr(data, "timestamp")
        /\ section.kind = "request" =>
              section.method = StringOr(data, "method") /\ section.url = StringOr(data, "url")
        /\ section.kind = "response" => section.status = NumberOr(data, "status_code")
        /\ Range(section.rows) = rows /\ Len(section.rows) = Cardinality(rows)
        /\ section.body = StringOr(data, "body")
        /\ section.rule

\* The i-th headed section of the report written to `out` renders the i-th
\* recognised entry of the document
InDocumentOrder(sessionName, out) ==
    out \in DOMAIN exp.files =>
        LET kept == SelectSeq(ParseSession(sessDir[sessionName]).entries, Recognised)
            headed == Headed(exp.files[out])
        IN  /\ Len(headed) = Len(kept)
            /\ \A i \in DOMAIN kept : Renders(headed[i], kept[i])

\* C16: the report is a flattened transcript in document order: exactly one
\* section per recognised entry, the i-th section for the i-th recognised
\* entry (no re-sorting, no pairing of a request with its response), every
\* section closed by a horizontal rule.
C16_DocumentOrder ==
    /\ InDocumentOrder("closed.json", "closed.md")
    /\ InDocumentOrder("bare.json", "bare.md")

C16_Witness ==
    /\ "closed.md" \in DOMAIN exp.files
    /\ Len(exp.files["closed.md"].sections) = 2
    /\ exp.files["closed.md"].sections[1].kind = "response"
    /\ exp.files["closed.md"].sections[1].id = "1"
    /\ exp.files["closed.md"].sections[2].kind = "request"
    /\ exp.files["closed.md"].sections[2].id = "1"
    /\ exp.files["closed.md"].sections[1].time # exp.files["closed.md"].sections[2].time

\* C23: two exports of the same session document write the same report, the
\* order of the rows of every headers table included.
C23_DeterministicExport ==
    [][ \A out \in DOMAIN exp.files :
            exp'.files[out].title = exp.files[out].title =>
                exp'.files[out] = exp.files[out]
      ]_vars

\* C12: an export that returns an error from the load stage or the parse stage
\* leaves every output file as it was: none created, none modified.
C12_FailedExportWritesNothing ==
    [][exp'.err => exp'.files = exp.files]_vars

C12_Witness ==
    /\ exp.err
    /\ exp.name = "corrupt.json"
    /\ exp.out = "closed.md"
    /\ "closed.md" \in DOMAIN exp.files
    /\ Len(exp.files["closed.md"].sections) = 2
    /\ Len(EntriesOf(sessDir["corrupt.json"])) = 2

C12_WitnessMissing ==
    exp.err /\ exp.name = "missing.json" /\ exp.out = "missing.md" /\ exp.files = EmptyMap

----------------------------------------------------------------------------
(* ListSpec: ListSessions on a session directory that holds other files and
   directories, before and after starts of the proxy *)

DIR == [k |-> "dir"]         \* what the directory holds under the name of a subdirectory

IsDir(dir, name) == dir[name] = <<DIR>>

\* filepath.Ext: the suffix that begins at the last dot, "" when there is none
Ext(name) ==
    LET dots == {i \in 1..Len(name) : SubSeq(name, i, i) = "."}
    IN  IF dots = {} THEN ""
        ELSE SubSeq(name, CHOOSE i \in dots : \A j \in dots : j <= i, Len(name))

\* The names a session directory of the model may hold, in the order of
\* os.ReadDir (sorted by file name)
DirOrder ==
    <<"arch.json", "notes.txt", "old.json">>
    \o [i \in 1..((MaxClock \div TicksPerSecond) + 1) |-> SessionName((i - 1) * TicksPerSecond)]
    \o <<"sub">>

ReadFailures == {"none", "notexist", "other"}

\* Mutant: directories are listed too
ListSessions_Directories(dir, readFail) ==
    CASE readFail = "notexist" -> [sessions |-> <<>>, err |-> FALSE]
      [] readFail = "other" -> [sessions |-> <<>>, err |-> TRUE]
      [] OTHER ->
          [sessions |-> SelectSeq(DirOrder, LAMBDA n : n \in DOMAIN dir /\ Ext(n) = ".json"),
           err |-> FALSE]

\* logger.ListSessions; `readFail` is the outcome of os.ReadDir
ListSessions(dir, readFail) ==
    CASE readFail = "notexist" -> [sessions |-> <<>>, err |-> FALSE]
      [] readFail = "other" -> [sessions |-> <<>>, err |-> TRUE]
      [] OTHER ->
          [sessions |-> SelectSeq(DirOrder, LAMBDA n : /\ n \in DOMAIN dir
                                                       /\ ~IsDir(dir, n)
                                                       /\ Ext(n) = ".json"),
           err |-> FALSE]

\* A call of ListSessions; a directory that does not exist holds nothing
ListCall ==
    /\ Len(hist) < MaxHookCalls
    /\ \E readFail \in ReadFailures :
          /\ readFail = "notexist" => DOMAIN sessDir = {}
          /\ LET r == ListSessions(sessDir, readFail)
             IN  hist' = Append(hist, [op |-> "ListSessions", fail |-> readFail,
                                       out |-> r.sessions, err |-> r.err])
    /\ UNCHANGED <<now, sl, sessDir, traffic, conns, opts, disk, proxy, exp>>

\* The entries a directory may hold before the proxy first starts
OtherEntries ==
    ("arch.json" :> <<DIR>>) @@ ("notes.txt" :> <<WS>>) @@ ("old.json" :> <<OPEN, CLOSE>>)
    @@ ("sub" :> <<DIR>>)

ListInit ==
    /\ now = 0
    /\ sl = NoLogger
    /\ \E names \in SUBSET DOMAIN OtherEntries :
          sessDir = [n \in names |-> OtherEntries[n]]
    /\ hist = <<>>
    /\ opts = DefaultOptions
    /\ traffic = SampleMessage
    /\ IdleRest

ListStart ==
    \E logFail \in LoggerFailures : NewProxyServer("none", FALSE, logFail)

ListNext ==
    \/ Tick
    \/ ListStart
    \/ ListCall

ListSpec == ListInit /\ [][ListNext]_vars

\* C17: ListSessions returns exactly the names of the entries of the session
\* directory that are not directories and end in the session file extension,
\* each once; it returns an empty list and no error when the directory does
\* not exist; and once a proxy has opened its session log the list holds the
\* name of that log.
C17_ListSessions ==
    [][ hist' # hist =>
            LET r == hist'[Len(hist')]
                want == {n \in DOMAIN sessDir :
                            /\ sessDir[n] # <<DIR>>
                            /\ Len(n) >= 5 /\ SubSeq(n, Len(n) - 4, Len(n)) = ".json"}
            IN  /\ r.fail = "notexist" => (r.out = <<>> /\ ~r.err)
                /\ r.fail = "none" =>
                      /\ ~r.err
                      /\ Range(r.out) = want /\ Len(r.out) = Cardinality(want)
                      /\ sl.made => (r.out # <<>> /\ sl.sessionName \in Range(r.out))
      ]_vars

C17_Witness ==
    /\ hist # <<>>
    /\ hist[Len(hist)].out = <<"old.json", SessionName(0)>>
    /\ hist[Len(hist)].fail = "none"
    /\ DOMAIN sessDir = {"arch.json", "notes.txt", "old.json", SessionName(0), "sub"}
    /\ sl.made /\ proxy.state = "serving"

C17_WitnessMissing ==
    /\ hist # <<>>
    /\ hist[Len(hist)].fail = "notexist"
    /\ hist[Len(hist)].out = <<>> /\ ~hist[Len(hist)].err

====
